---- MODULE Spec2Model ----
(***************************************************************************)
(* A model of the Taiga MCP server: the tool handlers of src/tools, the    *)
(* service methods of src/services they call, the cached session of        *)
(* taigaAuth.js and the remote Taiga API the requests go to.               *)
(*                                                                         *)
(* One tool invocation runs from Invoke to pc = "done".  Every awaited     *)
(* service call is one HTTP request, preceded by a login request when the  *)
(* session holds no token.  log[p] is the list of the requests invocation  *)
(* p has issued so far, outcome[p] what the handler returned or threw.     *)
(***************************************************************************)
EXTENDS Integers, Sequences, FiniteSets, TLC

(***************************************************************************)
(* Bounds of the model.                                                    *)
(***************************************************************************)
\* Login requests the remote answers in one run (tokens are numbered by them).
MaxLogins == 3
\* Entities the remote creates in one run.
MaxCreated == 1
\* The largest point value of a milestone.
MaxPoints == 3
MaxMilestones == 2

(***************************************************************************)
(* JavaScript values.  A string is a sequence of one-character strings, so *)
(* that isNaN / startsWith / substring / toLowerCase are computed.         *)
(***************************************************************************)
Str(s) == [t |-> "string", s |-> s, n |-> 0]
Num(n) == [t |-> "number", s |-> <<>>, n |-> n]
Undefined == [t |-> "undefined", s |-> <<>>, n |-> 0]
Bool(b) == [t |-> "bool", s |-> <<>>, n |-> IF b THEN 1 ELSE 0]

Digits == {"0", "1", "2", "3", "4", "5", "6", "7", "8", "9"}

\* isNaN(x): Number(x) of a string of digits is a number, Number("") is 0,
\* Number of a string holding a letter or '#' is NaN; a number is not NaN.
IsNaN(x) ==
  CASE x.t = "number" -> FALSE
    [] x.t = "undefined" -> TRUE
    [] OTHER -> \E i \in 1..Len(x.s) : x.s[i] \notin Digits

\* if (x): a string is truthy unless empty, a number unless 0, undefined never.
Truthy(x) ==
  CASE x.t = "string" -> x.s # <<>>
    [] x.t = "number" -> x.n # 0
    [] x.t = "bool" -> x.n = 1
    [] OTHER -> FALSE

LowerOf ==
  [c \in {"N", "E", "W", "D", "O", "n", "e", "w", "d", "o", "x"} |->
     CASE c = "N" -> "n" [] c = "E" -> "e" [] c = "W" -> "w"
       [] c = "D" -> "d" [] c = "O" -> "o" [] OTHER -> c]

\* String.prototype.toLowerCase over the alphabet of the status names.
ToLowerCase(s) == [i \in 1..Len(s) |-> LowerOf[s[i]]]

(***************************************************************************)
(* The remote Taiga instance: two projects, their slugs and their          *)
(* statuses, and the entities (user stories, tasks, ...) by ID.  The slug  *)
(* of project 2 is a string of digits, the case the by-slug fallback of    *)
(* taiga_getProject is written for.                                        *)
(***************************************************************************)
ProjectIds == {1, 2}
SlugOf == [i \in ProjectIds |-> IF i = 1 THEN <<"a">> ELSE <<"7">>]

\* GET /projects/by_slug?slug=s answers 200 with the project, or 404.
SlugMatches(s) == \E i \in ProjectIds : SlugOf[i] = s
ProjectIdOfSlug(s) == CHOOSE i \in ProjectIds : SlugOf[i] = s

\* The statuses of a project, as the "-statuses" collections list them.
StatusesOf(proj) ==
  CASE proj = 1 ->
         {[name |-> <<"N", "e", "w">>, id |-> 11], [name |-> <<"D", "o", "n", "e">>, id |-> 12]}
    [] proj = 2 -> {[name |-> <<"N", "e", "w">>, id |-> 21]}
    [] OTHER -> {}

\* Entities 1 and 2 exist (in project 1 and 2); entity 9 does not.
EntityIds == {1, 2}
EntityProject == [e \in EntityIds |-> e]

\* The user stories GET /userstories?project= lists, with their reference numbers.
UserStoriesOf(proj) ==
  CASE proj = 1 -> {[id |-> 1, ref |-> <<"5">>]}
    [] proj = 2 -> {[id |-> 2, ref |-> <<"6">>]}
    [] OTHER -> {}

(***************************************************************************)
(* The service methods: each obtains a client (createAuthenticatedClient), *)
(* issues one request, and on any error throws its fixed message.          *)
(***************************************************************************)
M(verb, path, err) == [verb |-> verb, path |-> path, err |-> err]

AuthenticationService ==
  [
     getCurrentUser |-> M("GET", "/users/me",
       "Failed to get user information from Taiga"),
     getUser |-> M("GET", "/users/{id}",
       "Failed to get user from Taiga"),
     listUsers |-> M("GET", "/users",
       "Failed to list users from Taiga") ]

ProjectService ==
  [
     listProjects |-> M("GET", "/projects",
       "Failed to list projects from Taiga"),
     getProject |-> M("GET", "/projects/{id}",
       "Failed to get project details from Taiga"),
     getProjectBySlug |-> M("GET", "/projects/by_slug",
       "Failed to get project details from Taiga"),
     createProject |-> M("POST", "/projects",
       "Failed to create project in Taiga"),
     updateProject |-> M("PATCH", "/projects/{id}",
       "Failed to update project in Taiga"),
     deleteProject |-> M("DELETE", "/projects/{id}",
       "Failed to delete project from Taiga"),
     getProjectMembers |-> M("GET", "/memberships",
       "Failed to get project members from Taiga"),
     inviteProjectUser |-> M("POST", "/memberships",
       "Failed to invite user to project in Taiga"),
     getProjectStats |-> M("GET", "/projects/{id}/stats",
       "Failed to get project statistics from Taiga"),
     searchProject |-> M("GET", "/search",
       "Failed to search project in Taiga"),
     exportProject |-> M("POST", "/exporter/{id}",
       "Failed to export project from Taiga"),
     getExportStatus |-> M("GET", "/exporter/{id}",
       "Failed to get export status from Taiga") ]

RoleService ==
  [
     listRoles |-> M("GET", "/roles",
       "Failed to list roles from Taiga"),
     getRole |-> M("GET", "/roles/{id}",
       "Failed to get role details from Taiga") ]

UserStoryService ==
  [
     listUserStories |-> M("GET", "/userstories",
       "Failed to list user stories from Taiga"),
     createUserStory |-> M("POST", "/userstories",
       "Failed to create user story in Taiga"),
     getUserStoryStatuses |-> M("GET", "/userstory-statuses",
       "Failed to get user story statuses from Taiga"),
     getUserStory |-> M("GET", "/userstories/{id}",
       "Failed to get user story from Taiga"),
     updateUserStory |-> M("PATCH", "/userstories/{id}",
       "Failed to update user story in Taiga"),
     deleteUserStory |-> M("DELETE", "/userstories/{id}",
       "Failed to delete user story from Taiga") ]

IssueService ==
  [
     listIssues |-> M("GET", "/issues",
       "Failed to list issues from Taiga"),
     createIssue |-> M("POST", "/issues",
       "Failed to create issue in Taiga"),
     getIssue |-> M("GET", "/issues/{id}",
       "Failed to get issue from Taiga"),
     updateIssue |-> M("PATCH", "/issues/{id}",
       "Failed to update issue in Taiga"),
     deleteIssue |-> M("DELETE", "/issues/{id}",
       "Failed to delete issue from Taiga"),
     getIssueStatuses |-> M("GET", "/issue-statuses",
       "Failed to get issue statuses from Taiga"),
     getIssuePriorities |-> M("GET", "/priorities",
       "Failed to get issue priorities from Taiga"),
     getIssueSeverities |-> M("GET", "/severities",
       "Failed to get issue severities from Taiga"),
     getIssueTypes |-> M("GET", "/issue-types",
       "Failed to get issue types from Taiga") ]

TaskService ==
  [
     createTask |-> M("POST", "/tasks",
       "Failed to create task in Taiga"),
     getTaskStatuses |-> M("GET", "/task-statuses",
       "Failed to get task statuses from Taiga"),
     listTasks |-> M("GET", "/tasks",
       "Failed to list tasks from Taiga"),
     getTask |-> M("GET", "/tasks/{id}",
       "Failed to get task from Taiga"),
     updateTask |-> M("PATCH", "/tasks/{id}",
       "Failed to update task in Taiga"),
     deleteTask |-> M("DELETE", "/tasks/{id}",
       "Failed to delete task from Taiga") ]

MilestoneService ==
  [
     listMilestones |-> M("GET", "/milestones",
       "Failed to list milestones from Taiga"),
     createMilestone |-> M("POST", "/milestones",
       "Failed to create milestone in Taiga"),
     getMilestone |-> M("GET", "/milestones/{id}",
       "Failed to get milestone from Taiga"),
     updateMilestone |-> M("PATCH", "/milestones/{id}",
       "Failed to update milestone in Taiga"),
     deleteMilestone |-> M("DELETE", "/milestones/{id}",
       "Failed to delete milestone from Taiga"),
     getMilestoneStats |-> M("GET", "/milestones/{id}/stats",
       "Failed to get milestone statistics from Taiga") ]

WikiService ==
  [
     listWikiPages |-> M("GET", "/wiki",
       "Failed to list wiki pages from Taiga"),
     getWikiPage |-> M("GET", "/wiki/{id}",
       "Failed to get wiki page from Taiga"),
     createWikiPage |-> M("POST", "/wiki",
       "Failed to create wiki page in Taiga"),
     updateWikiPage |-> M("PATCH", "/wiki/{id}",
       "Failed to update wiki page in Taiga"),
     deleteWikiPage |-> M("DELETE", "/wiki/{id}",
       "Failed to delete wiki page from Taiga") ]

EpicService ==
  [
     listEpics |-> M("GET", "/epics",
       "Failed to list epics from Taiga"),
     createEpic |-> M("POST", "/epics",
       "Failed to create epic in Taiga"),
     getEpic |-> M("GET", "/epics/{id}",
       "Failed to get epic from Taiga"),
     updateEpic |-> M("PATCH", "/epics/{id}",
       "Failed to update epic in Taiga"),
     deleteEpic |-> M("DELETE", "/epics/{id}",
       "Failed to delete epic from Taiga") ]

Service ==
  AuthenticationService @@ ProjectService @@ RoleService @@ UserStoryService @@ IssueService @@ TaskService
    @@ MilestoneService @@ WikiService @@ EpicService

(***************************************************************************)
(* The tool handlers, file by file.  Each entry is what the handler's code *)
(* fixes: the service method of its target request, how it resolves a      *)
(* project identifier, what its catch block does with an error (throw a    *)
(* wrapped error, or return it as text) and with which prefix, and how it  *)
(* treats a status name.                                                   *)
(*   resolver  "isNaN"             let id = ident; if (isNaN(ident)) by slug *)
(*             "isNaNNumber"       the same with isNaN(Number(ident))        *)
(*             "typeofString"      typeof ident === "string" && isNaN(...)   *)
(*             "undeclared"        isNaN, the let lost in a comment line     *)
(*             "undeclaredTypeof"  typeofString, the let lost likewise       *)
(*             "noImport"          projectService is not imported            *)
(*             "byIdThenSlug"      by ID, and by slug when that fails        *)
(*             "slugOnly"          the argument is the slug                  *)
(*   status    "create"   if (status): list the statuses, drop an unknown    *)
(*             "strict"   !== undefined: fetch, list, throw on an unknown    *)
(*             "lenient"  if (statusName): fetch, list, drop an unknown      *)
(*             "raw"      if (statusName): the name itself is the payload    *)
(***************************************************************************)
H(svc, resolver, catch, prefix, status, statusSvc, fetchSvc) ==
  [svc |-> svc, resolver |-> resolver, catch |-> catch, prefix |-> prefix,
   status |-> status, statusSvc |-> statusSvc, fetchSvc |-> fetchSvc]

authenticationTools ==
  [
    taiga_authenticate |-> H("getCurrentUser", "none", "text",
      "Authentication failed: ", "none", "", ""),
    taiga_getCurrentUser |-> H("getCurrentUser", "none", "throw",
      "Failed to get current user: ", "none", "", ""),
    taiga_getProjectMembers |-> H("getProjectMembers", "noImport", "text",
      "Failed to get project members: ", "none", "", ""),
    taiga_listUsers |-> H("listUsers", "none", "throw",
      "Failed to list users: ", "none", "", ""),
    taiga_getUser |-> H("getUser", "none", "throw",
      "Failed to get user: ", "none", "", "") ]

projectTools ==
  [
    taiga_listProjects |-> H("listProjects", "none", "text",
      "Failed to list projects: ", "none", "", ""),
    taiga_getProject |-> H("getProject", "byIdThenSlug", "text",
      "Failed to get project details: ", "none", "", ""),
    taiga_createProject |-> H("createProject", "none", "text",
      "Failed to create project: ", "none", "", ""),
    taiga_updateProject |-> H("updateProject", "isNaN", "text",
      "Failed to update project: ", "none", "", ""),
    taiga_deleteProject |-> H("deleteProject", "isNaN", "text",
      "Failed to delete project: ", "none", "", ""),
    taiga_getProjectBySlug |-> H("getProjectBySlug", "slugOnly", "text",
      "Failed to get project by slug: ", "none", "", ""),
    taiga_searchProject |-> H("searchProject", "typeofString", "throw",
      "Failed to search project: ", "none", "", ""),
    taiga_exportProject |-> H("exportProject", "undeclaredTypeof", "throw",
      "Failed to export project: ", "none", "", ""),
    taiga_getExportStatus |-> H("getExportStatus", "none", "throw",
      "Failed to get export status: ", "none", "", ""),
    taiga_inviteProjectUser |-> H("inviteProjectUser", "typeofString", "throw",
      "Failed to invite user to project: ", "none", "", ""),
    taiga_getProjectStats |-> H("getProjectStats", "isNaN", "text",
      "Failed to get project statistics: ", "none", "", "") ]

userStoryTools ==
  [
    taiga_createUserStory |-> H("createUserStory", "isNaN", "text",
      "Failed to create user story: ", "create", "getUserStoryStatuses", ""),
    taiga_listUserStories |-> H("listUserStories", "undeclared", "text",
      "Failed to list user stories: ", "none", "", ""),
    taiga_getUserStory |-> H("getUserStory", "none", "text",
      "Failed to get user story: ", "none", "", ""),
    taiga_updateUserStory |-> H("updateUserStory", "none", "text",
      "Failed to update user story: ", "strict", "getUserStoryStatuses", "getUserStory"),
    taiga_deleteUserStory |-> H("deleteUserStory", "none", "text",
      "Failed to delete user story: ", "none", "", ""),
    taiga_assignUserStory |-> H("updateUserStory", "none", "text",
      "Failed to assign user story: ", "none", "", ""),
    taiga_unassignUserStory |-> H("updateUserStory", "none", "text",
      "Failed to unassign user story: ", "none", "", ""),
    taiga_getUserStoryStatuses |-> H("getUserStoryStatuses", "isNaN", "text",
      "Failed to get user story statuses: ", "none", "", "") ]

taskTools ==
  [
    taiga_createTask |-> H("createTask", "isNaN", "text",
      "Failed to create task: ", "create", "getTaskStatuses", ""),
    taiga_listTasks |-> H("listTasks", "isNaN", "text",
      "Failed to list tasks: ", "none", "", ""),
    taiga_getTask |-> H("getTask", "none", "throw",
      "Failed to get task: ", "none", "", ""),
    taiga_updateTask |-> H("updateTask", "none", "throw",
      "Failed to update task: ", "lenient", "getTaskStatuses", "getTask"),
    taiga_deleteTask |-> H("deleteTask", "none", "throw",
      "Failed to delete task: ", "none", "", ""),
    taiga_assignTask |-> H("updateTask", "none", "throw",
      "Failed to assign task: ", "none", "", ""),
    taiga_unassignTask |-> H("updateTask", "none", "throw",
      "Failed to unassign task: ", "none", "", ""),
    taiga_getTaskStatuses |-> H("getTaskStatuses", "isNaN", "text",
      "Failed to get task statuses: ", "none", "", "") ]

issueTools ==
  [
    taiga_listIssues |-> H("listIssues", "isNaNNumber", "throw",
      "Failed to list issues: ", "none", "", ""),
    taiga_getIssue |-> H("getIssue", "none", "throw",
      "Failed to get issue: ", "none", "", ""),
    taiga_createIssue |-> H("createIssue", "isNaNNumber", "throw",
      "Failed to create issue: ", "none", "", ""),
    taiga_updateIssue |-> H("updateIssue", "none", "throw",
      "Failed to update issue: ", "raw", "", ""),
    taiga_deleteIssue |-> H("deleteIssue", "none", "throw",
      "Failed to delete issue: ", "none", "", ""),
    taiga_assignIssue |-> H("updateIssue", "none", "throw",
      "Failed to assign issue: ", "none", "", ""),
    taiga_unassignIssue |-> H("updateIssue", "none", "throw",
      "Failed to unassign issue: ", "none", "", ""),
    taiga_getIssueStatuses |-> H("getIssueStatuses", "isNaNNumber", "throw",
      "Failed to get issue statuses: ", "none", "", ""),
    taiga_getIssuePriorities |-> H("getIssuePriorities", "isNaNNumber", "throw",
      "Failed to get issue priorities: ", "none", "", ""),
    taiga_getIssueSeverities |-> H("getIssueSeverities", "isNaNNumber", "throw",
      "Failed to get issue severities: ", "none", "", ""),
    taiga_getIssueTypes |-> H("getIssueTypes", "isNaNNumber", "throw",
      "Failed to get issue types: ", "none", "", "") ]

epicTools ==
  [
    taiga_listEpics |-> H("listEpics", "isNaNNumber", "throw",
      "Failed to list epics: ", "none", "", ""),
    taiga_getEpic |-> H("getEpic", "none", "throw",
      "Failed to get epic: ", "none", "", ""),
    taiga_createEpic |-> H("createEpic", "isNaNNumber", "throw",
      "Failed to create epic: ", "none", "", ""),
    taiga_updateEpic |-> H("updateEpic", "none", "throw",
      "Failed to update epic: ", "raw", "", ""),
    taiga_deleteEpic |-> H("deleteEpic", "none", "throw",
      "Failed to delete epic: ", "none", "", ""),
    taiga_assignEpic |-> H("updateEpic", "none", "throw",
      "Failed to assign epic: ", "none", "", ""),
    taiga_unassignEpic |-> H("updateEpic", "none", "throw",
      "Failed to unassign epic: ", "none", "", "") ]

milestoneTools ==
  [
    taiga_listMilestones |-> H("listMilestones", "isNaNNumber", "throw",
      "Failed to list milestones: ", "none", "", ""),
    taiga_getMilestone |-> H("getMilestone", "none", "throw",
      "Failed to get milestone: ", "none", "", ""),
    taiga_createMilestone |-> H("createMilestone", "isNaNNumber", "throw",
      "Failed to create milestone: ", "none", "", ""),
    taiga_updateMilestone |-> H("updateMilestone", "none", "throw",
      "Failed to update milestone: ", "none", "", ""),
    taiga_deleteMilestone |-> H("deleteMilestone", "none", "throw",
      "Failed to delete milestone: ", "none", "", ""),
    taiga_closeMilestone |-> H("updateMilestone", "none", "throw",
      "Failed to close milestone: ", "none", "", ""),
    taiga_reopenMilestone |-> H("updateMilestone", "none", "throw",
      "Failed to reopen milestone: ", "none", "", ""),
    taiga_getMilestoneStats |-> H("getMilestoneStats", "none", "throw",
      "Failed to get milestone statistics: ", "none", "", "") ]

wikiTools ==
  [
    taiga_listWikiPages |-> H("listWikiPages", "isNaN", "text",
      "Failed to list wiki pages: ", "none", "", ""),
    taiga_getWikiPage |-> H("getWikiPage", "none", "text",
      "Failed to get wiki page: ", "none", "", ""),
    taiga_createWikiPage |-> H("createWikiPage", "isNaN", "text",
      "Failed to create wiki page: ", "none", "", ""),
    taiga_updateWikiPage |-> H("updateWikiPage", "none", "text",
      "Failed to update wiki page: ", "none", "", ""),
    taiga_deleteWikiPage |-> H("deleteWikiPage", "none", "text",
      "Failed to delete wiki page: ", "none", "", "") ]

roleTools ==
  [
    taiga_listRoles |-> H("listRoles", "isNaN", "text",
      "Failed to list roles: ", "none", "", ""),
    taiga_getRole |-> H("getRole", "none", "text",
      "Failed to get role details: ", "none", "", "") ]

\* Every handler the repository defines.
Handler ==
  authenticationTools @@ projectTools @@ userStoryTools @@ taskTools @@ issueTools
    @@ epicTools @@ milestoneTools @@ wikiTools @@ roleTools

\* The tools index.js registers on the server: registerWikiTools is commented
\* out and registerRoleTools is never called.
Registered ==
  DOMAIN authenticationTools \cup DOMAIN projectTools \cup DOMAIN userStoryTools
    \cup DOMAIN taskTools \cup DOMAIN epicTools \cup DOMAIN issueTools
    \cup DOMAIN milestoneTools

(***************************************************************************)
(* The remote's answers.                                                   *)
(***************************************************************************)
DigitVal ==
  [c \in Digits |->
     CASE c = "0" -> 0 [] c = "1" -> 1 [] c = "2" -> 2 [] c = "3" -> 3 [] c = "4" -> 4
       [] c = "5" -> 5 [] c = "6" -> 6 [] c = "7" -> 7 [] c = "8" -> 8 [] OTHER -> 9]

RECURSIVE ToNumber(_)
\* Number(s) of a string of digits (Number("") is 0).
ToNumber(s) == IF s = <<>> THEN 0 ELSE 10 * ToNumber(SubSeq(s, 1, Len(s) - 1)) + DigitVal[s[Len(s)]]

\* The ID a request parameter names: the number, or the digits of the string;
\* -1 for anything else.
RemoteId(x) ==
  CASE x.t = "number" -> x.n
    [] x.t = "string" /\ ~IsNaN(x) /\ x.s # <<>> -> ToNumber(x.s)
    [] OTHER -> -1

\* The service methods whose URL names one entity: /<collection>/{id}.
ById == {m \in DOMAIN Service : Service[m].path \in
  {"/users/{id}", "/projects/{id}", "/projects/{id}/stats", "/exporter/{id}", "/roles/{id}",
   "/userstories/{id}", "/issues/{id}", "/tasks/{id}", "/milestones/{id}",
   "/milestones/{id}/stats", "/wiki/{id}", "/epics/{id}"}}

\* Whether the remote can answer 2xx: a slug must match a project and an ID
\* must name an entity.  Any request can fail (network, permissions).
CanSucceed(svc, arg) ==
  CASE svc = "getProjectBySlug" -> arg.t = "string" /\ SlugMatches(arg.s)
    [] svc \in ById -> RemoteId(arg) \in EntityIds
    [] OTHER -> TRUE

(***************************************************************************)
(* State.                                                                  *)
(***************************************************************************)
VARIABLES
  env,      \* process.env: TAIGA_USERNAME, TAIGA_PASSWORD
  session,  \* the cached session: token (0: none) and whose it is
  hist,     \* history: login requests issued, whether one was an explicit
            \* authenticate, whether the first login succeeded, and the
            \* newest token the remote no longer accepts (0: none)
  pc,       \* per invocation: "idle", the awaited call, or "done"
  tool,     \* per invocation: the tool invoked
  args,     \* per invocation: its arguments
  loc,      \* per invocation: the handler's local variables
  log,      \* per invocation: the requests it has issued, in order
  outcome,  \* per invocation: what the handler returned or threw
  store     \* the entities the remote has created, with what the create
            \* tool reported of each

vars == <<env, session, hist, pc, tool, args, loc, log, outcome, store>>

\* Invocations in flight at once.
Procs == {"A", "B"}

\* A request: the call of the handler it belongs to, the service method that
\* issued it ("login" for the POST /auth of taigaAuth.js), its ID / project /
\* slug parameter (the username of a login), the status of its payload (the
\* password of a login), its result ("pending", "ok", "fail") and the token it
\* was sent with (the token a login returns if it succeeds).
Req(c, op, arg, st, tok) ==
  [c |-> c, op |-> op, arg |-> arg, st |-> st, res |-> "pending", tok |-> tok,
   rej |-> FALSE]

Last(s) == s[Len(s)]
\* (A handler that goes on without the answer to the request it issued.)
NotAwaited(s, r) == s

SetLast(s, r) == [s EXCEPT ![Len(s)].res = r]
SetRejected(s, b) == [s EXCEPT ![Len(s)].rej = b]

NoArgs ==
  [ident |-> Undefined, id |-> Undefined, status |-> Undefined, confirm |-> FALSE,
   usIdent |-> Undefined, username |-> Undefined, password |-> Undefined,
   subject |-> Undefined, given |-> [x \in {} |-> Undefined]]

NoLocals ==
  [projectId |-> Undefined, statusId |-> Undefined, client |-> 0,
   call |-> [svc |-> "", arg |-> Undefined, st |-> Undefined]]

NoOutcome == [style |-> "none", kind |-> "none", text |-> ""]

(***************************************************************************)
(* The arguments the model invokes each tool with.                         *)
(***************************************************************************)
\* Project identifiers: "1" (the ID of project 1), "7" (the ID of no project,
\* the slug of project 2), "a" (the slug of project 1) and "z" (of none).
Idents == {Str(<<"1">>), Str(<<"7">>), Str(<<"a">>), Str(<<"z">>)}
\* Entity IDs (z.number()): 1 and 2 exist, 9 does not.
Ids == {Num(1), Num(2), Num(9)}
\* Status names: none, "", "new" (a status of both projects) and "x" (of none).
StatusArgs == {Undefined, Str(<<>>), Str(<<"n", "e", "w">>), Str(<<"x">>)}
\* User story identifiers of taiga_createTask: an ID, and the references #5, #8.
UsIdents == {Str(<<"1">>), Str(<<"#", "5">>), Str(<<"#", "8">>)}
Credentials == {Undefined, Str(<<"u">>)}
ExplicitCredentials == Credentials \cup {Str(<<"v">>)}

ProjectResolvers ==
  {"isNaN", "isNaNNumber", "typeofString", "undeclared", "undeclaredTypeof", "noImport",
   "byIdThenSlug", "slugOnly"}

ArgsOf(t) ==
  LET h == Handler[t]
      idents == IF h.resolver \in {"typeofString", "undeclaredTypeof"}
                  THEN Idents \cup {Num(1)} ELSE Idents
  IN CASE t = "taiga_authenticate" ->
            {[NoArgs EXCEPT !.username = u, !.password = w] :
               u \in ExplicitCredentials, w \in ExplicitCredentials}
       [] t = "taiga_deleteProject" ->
            {[NoArgs EXCEPT !.ident = i, !.confirm = c] : i \in Idents, c \in BOOLEAN}
       [] t = "taiga_createTask" ->
            {[NoArgs EXCEPT !.ident = i, !.usIdent = u, !.status = s] :
               i \in Idents, u \in UsIdents, s \in StatusArgs}
       [] h.resolver \in ProjectResolvers /\ h.status # "none" ->
            {[NoArgs EXCEPT !.ident = i, !.status = s] : i \in Idents, s \in StatusArgs}
       [] h.resolver \in ProjectResolvers ->
            {[NoArgs EXCEPT !.ident = i] : i \in idents}
       [] h.status # "none" ->
            {[NoArgs EXCEPT !.id = i, !.status = s] : i \in Ids, s \in StatusArgs}
       [] h.svc \in ById ->
            {[NoArgs EXCEPT !.id = i] : i \in Ids}
       [] OTHER -> {NoArgs}

(***************************************************************************)
(* The handlers.  A handler runs from one await to the next; what it does  *)
(* there is an effect: the next service call, a throw into its catch       *)
(* block, or a return.                                                     *)
(***************************************************************************)
Call(c, svc, arg, st, l) ==
  [k |-> "call", c |-> c, svc |-> svc, arg |-> arg, st |-> st, msg |-> "", l |-> l]
Throw(msg, l) ==
  [k |-> "throw", c |-> "", svc |-> "", arg |-> Undefined, st |-> Undefined, msg |-> msg, l |-> l]
Return(kind, msg, l) ==
  [k |-> kind, c |-> "", svc |-> "", arg |-> Undefined, st |-> Undefined, msg |-> msg, l |-> l]

\* ReferenceError of an ES module (strict mode) for a name never declared.
NotDefined(resolver) ==
  CASE resolver = "undeclared" -> "projectId is not defined"
    [] resolver = "undeclaredTypeof" -> "resolvedProjectId is not defined"
    [] OTHER -> "projectService is not defined"

\* The condition under which a handler looks the project up by slug.
NeedsLookup(resolver, ident) ==
  CASE resolver \in {"isNaN", "isNaNNumber", "undeclared"} -> IsNaN(ident)
    [] resolver \in {"typeofString", "undeclaredTypeof"} -> ident.t = "string" /\ IsNaN(ident)
    [] OTHER -> FALSE

\* userStoryIdentifier.startsWith("#")
StartsWithHash(x) == x.t = "string" /\ Len(x.s) > 0 /\ x.s[1] = "#"

(***************************************************************************)
(* The updateData of the update tools: per optional argument, the key of   *)
(* the payload it is copied to, the test that guards the copy ("defined":  *)
(* x !== undefined, "truthy": if (x)) and its type.  statusName is dealt   *)
(* with by the status lookup and is not listed.                            *)
(***************************************************************************)
F(arg, key, test, type) == [arg |-> arg, key |-> key, test |-> test, type |-> type]

UpdateFields ==
  [taiga_updateProject |->
     {F("name", "name", "defined", "string"),
      F("description", "description", "defined", "string"),
      F("isPrivate", "is_private", "defined", "bool")},
   taiga_updateUserStory |->
     {F("subject", "subject", "defined", "string"),
      F("description", "description", "defined", "string"),
      F("assignedTo", "assigned_to", "defined", "number"),
      F("points", "total_points", "defined", "number"),
      F("tags", "tags", "defined", "string")},
   taiga_updateTask |->
     {F("subject", "subject", "defined", "string"),
      F("description", "description", "defined", "string"),
      F("assignedTo", "assigned_to", "defined", "number"),
      F("dueDate", "due_date", "defined", "string")},
   taiga_updateIssue |->
     {F("subject", "subject", "truthy", "string"),
      F("description", "description", "truthy", "string"),
      F("priority", "priority", "truthy", "string"),
      F("severity", "severity", "truthy", "string"),
      F("type", "type", "truthy", "string"),
      F("assignedTo", "assigned_to", "truthy", "number"),
      F("dueDate", "due_date", "truthy", "string")},
   taiga_updateEpic |->
     {F("subject", "subject", "truthy", "string"),
      F("description", "description", "truthy", "string"),
      F("color", "color", "truthy", "string"),
      F("assignedTo", "assigned_to", "truthy", "number")},
   taiga_updateMilestone |->
     {F("name", "name", "truthy", "string"),
      F("estimatedStart", "estimated_start", "truthy", "string"),
      F("estimatedFinish", "estimated_finish", "truthy", "string"),
      F("disponibility", "disponibility", "defined", "number"),
      F("closed", "closed", "defined", "bool")},
   taiga_updateWikiPage |->
     {F("slug", "slug", "truthy", "string"),
      F("content", "content", "truthy", "string")}]

\* The guard of one copy.
Copies(f, x) == IF f.test = "truthy" THEN Truthy(x) ELSE x # Undefined

\* updateData: the payload of the PATCH, built from the arguments given.
UpdateData(t, given) ==
  LET kept == {f \in UpdateFields[t] : Copies(f, given[f.arg])}
  IN [k \in {f.key : f \in kept} |-> given[(CHOOSE f \in kept : f.key = k).arg]]

\* The target request: the handler builds its payload and calls the service.
\* taiga_createTask reads userStoryId, whose let is lost in a comment line.
TargetCall(t, a, l) ==
  LET h == Handler[t]
      arg == IF h.resolver \in ProjectResolvers THEN l.projectId ELSE a.id
  IN CASE t = "taiga_createTask" -> Throw("userStoryId is not defined", l)
       [] t = "taiga_updateWikiPage" /\ DOMAIN UpdateData(t, a.given) = {} ->
            Return("error-text",
              "No updates provided. Please specify slug or content to update.", l)
       [] OTHER -> Call("target", h.svc, arg, l.statusId, l)

\* statuses.find((s) => s.name.toLowerCase() === status.toLowerCase())
FindStatus(statuses, name) ==
  {s \in statuses : ToLowerCase(s.name) = ToLowerCase(name.s)}

\* What a handler does with its status name before the target request.
StatusPhase(t, a, l) ==
  LET h == Handler[t]
  IN CASE h.status = "create" ->
            IF Truthy(a.status)
              THEN Call("statuses", h.statusSvc, l.projectId, Undefined, l)
              ELSE TargetCall(t, a, l)
       [] h.status = "strict" ->
            IF a.status # Undefined
              THEN Call("fetch", h.fetchSvc, a.id, Undefined, l)
              ELSE TargetCall(t, a, l)
       [] h.status = "lenient" ->
            IF Truthy(a.status)
              THEN Call("fetch", h.fetchSvc, a.id, Undefined, l)
              ELSE TargetCall(t, a, l)
       [] h.status = "raw" ->
            TargetCall(t, a, [l EXCEPT !.statusId = IF Truthy(a.status) THEN a.status ELSE Undefined])
       [] OTHER -> TargetCall(t, a, l)

\* After the project ID is known: taiga_createTask resolves a '#'-reference
\* by listing the project's user stories.
AfterResolve(t, a, l) ==
  IF t = "taiga_createTask" /\ StartsWithHash(a.usIdent)
    THEN Call("usList", "listUserStories", l.projectId, Undefined, l)
    ELSE StatusPhase(t, a, l)

\* (A handler that logs in with whatever credentials it has.)
NeverMissing(user, pass) == FALSE

\* taiga_authenticate asks for credentials when one is missing.
MissingCredentials(user, pass) == ~Truthy(user) \/ ~Truthy(pass)

\* (A handler that deletes without looking at confirm.)
AlwaysConfirmed(a) == TRUE

\* taiga_deleteProject goes on only when confirm is true.
Confirmed(a) == a.confirm

\* The handler from its first line to its first await.
Entry(t, a, e) ==
  LET h == Handler[t]
      user == IF Truthy(a.username) THEN a.username ELSE e.TAIGA_USERNAME
      pass == IF Truthy(a.password) THEN a.password ELSE e.TAIGA_PASSWORD
  IN CASE t = "taiga_authenticate" ->
            IF MissingCredentials(user, pass)
              THEN Return("error-text",
                     "Error: Username and password are required. Please provide them or set them in the environment variables.",
                     NoLocals)
              ELSE Call("auth", "login", user, pass, NoLocals)
       [] t = "taiga_listProjects" ->
            Call("acquire", "listProjects", Undefined, Undefined, NoLocals)
       [] t = "taiga_deleteProject" /\ ~Confirmed(a) ->
            Return("cancelled",
              "Project deletion cancelled. Please set 'confirm' to true to proceed with deletion.",
              NoLocals)
       [] h.resolver = "noImport" -> Throw(NotDefined(h.resolver), NoLocals)
       [] h.resolver = "byIdThenSlug" ->
            IF ~IsNaN(a.ident)
              THEN Call("byId", "getProject", a.ident, Undefined, NoLocals)
              ELSE Call("target", "getProjectBySlug", a.ident, Undefined, NoLocals)
       [] h.resolver = "slugOnly" ->
            Call("target", "getProjectBySlug", a.ident, Undefined, NoLocals)
       [] h.resolver \in ProjectResolvers ->
            IF NeedsLookup(h.resolver, a.ident)
              THEN Call("bySlug", "getProjectBySlug", a.ident, Undefined, NoLocals)
              ELSE IF h.resolver \in {"undeclared", "undeclaredTypeof"}
                     THEN Throw(NotDefined(h.resolver), NoLocals)
                     ELSE AfterResolve(t, a, [NoLocals EXCEPT !.projectId = a.ident])
       [] OTHER -> StatusPhase(t, a, NoLocals)

\* The message a failed service call throws: the service's fixed message;
\* listProjects wraps the failure of the getCurrentUser it calls in its own.
ServiceError(t, svc) ==
  IF t = "taiga_listProjects" THEN Service["listProjects"].err ELSE Service[svc].err

\* A handler that goes on to its own request whatever failed before.
OnFailureIssueTarget(t, a, l, c, svc, arg) == TargetCall(t, a, l)

\* (A taiga_getProject that gives up when its by-ID call fails.)
OnFailureNoFallback(t, a, l, c, svc, arg) == Throw(ServiceError(t, svc), l)

\* The handler after call c failed: the service threw its message, which the
\* handler's catch block gets; taiga_getProject catches the failure of its
\* by-ID request itself and tries the identifier as a slug.
OnFailure(t, a, l, c, svc, arg) ==
  IF c = "byId"
    THEN Call("fallback", "getProjectBySlug", a.ident, Undefined, l)
    ELSE Throw(ServiceError(t, svc), l)

\* A handler that repeats the request that succeeded.
OnSuccessRepeat(t, a, l, c, svc, arg) == Call("target", svc, arg, Undefined, l)

\* The handler from the answer to call c to its next await.
OnSuccess(t, a, l, c, svc, arg) ==
  LET h == Handler[t]
  IN CASE c = "bySlug" ->
            IF h.resolver \in {"undeclared", "undeclaredTypeof"}
              THEN Throw(NotDefined(h.resolver), l)
              ELSE AfterResolve(t, a, [l EXCEPT !.projectId = Num(ProjectIdOfSlug(arg.s))])
       [] c = "usList" ->
            LET refNumber == Tail(a.usIdent.s)
                found == {us \in UserStoriesOf(RemoteId(arg)) : us.ref = refNumber}
            IN IF found # {}
                 THEN Throw("userStoryId is not defined", l)
                 ELSE Throw("User story with reference #${refNumber} not found", l)
       [] c = "fetch" ->
            Call("statuses", h.statusSvc, Num(EntityProject[RemoteId(arg)]), Undefined, l)
       [] c = "statuses" ->
            LET matching == FindStatus(StatusesOf(RemoteId(arg)), a.status)
            IN IF matching # {}
                 THEN TargetCall(t, a, [l EXCEPT !.statusId = Num((CHOOSE s \in matching : TRUE).id)])
                 ELSE IF h.status = "strict"
                        THEN Throw("Status \"${statusName}\" not found", l)
                        ELSE TargetCall(t, a, l)
       [] c = "me" /\ t = "taiga_listProjects" ->
            Call("target", "listProjects", Undefined, Undefined, l)
       [] OTHER -> Return("success", "", l)

Continue(t, a, l, c, svc, arg, ok) ==
  IF ok THEN OnSuccess(t, a, l, c, svc, arg) ELSE OnFailure(t, a, l, c, svc, arg)

\* A catch block that rethrows the error as it got it.
CatchUnwrapped(t, msg) == [style |-> "throw", kind |-> "failure", text |-> msg]

\* The catch block of the handler: a wrapped throw, or an error text.
Catch(t, msg) ==
  [style |-> Handler[t].catch, kind |-> "failure", text |-> Handler[t].prefix \o msg]

(***************************************************************************)
(* taigaAuth.js: the session manager.                                      *)
(***************************************************************************)
\* A session manager that caches nothing.
LoginEveryTime(sess) == TRUE

\* (A session manager that logs in again when the remote no longer accepts
\* the cached token.)
LoginWhenRejected(sess) == sess.token <= hist.rejected

\* createAuthenticatedClient logs in when no token is cached.
NeedsLogin(sess) == sess.token = 0

\* The message of the error a failed login throws.
AuthError == "Authentication failed"

\* (A session manager that forgets the cached session when a login fails.)
SessionClearedByFailedLogin(sess, r, ok) ==
  IF ok THEN [token |-> r.tok, user |-> r.arg] ELSE [token |-> 0, user |-> Undefined]

\* The cached session after the answer to login request r: a successful login
\* caches the returned token with the identity of the account; a failed one
\* leaves the cache as it was.
SessionAfterLogin(sess, r, ok) ==
  IF ok THEN [token |-> r.tok, user |-> r.arg] ELSE sess

\* (A service that drops the cached session when its request fails.)
SessionDroppedOnFailure(sess, ok) ==
  IF ok THEN sess ELSE [token |-> 0, user |-> Undefined]

\* The cached session after the answer to a request of a service method: the
\* method returns response.data or rethrows, and writes nothing.
SessionAfterAnswer(sess, ok) == sess

\* The remote accepts the accounts "u" and "v", each with its name as password.
ValidCredentials(user, pass) == user \in {Str(<<"u">>), Str(<<"v">>)} /\ pass = user

\* (A login that always sends the configured user name.)
ConfiguredUser(eff, e) == e.TAIGA_USERNAME

\* The credentials of a login: those handed to an explicit authenticate, the
\* configured ones when a client is acquired.
LoginUser(eff, e) == IF eff.c = "auth" THEN eff.arg ELSE e.TAIGA_USERNAME
LoginPass(eff, e) == IF eff.c = "auth" THEN eff.st ELSE e.TAIGA_PASSWORD

(***************************************************************************)
(* The state machine.                                                      *)
(***************************************************************************)
Envs ==
  {[TAIGA_USERNAME |-> Str(<<"u">>), TAIGA_PASSWORD |-> w] : w \in Credentials}

Init ==
  /\ env \in Envs
  /\ session = [token |-> 0, user |-> Undefined]
  /\ hist = [logins |-> 0, explicit |-> FALSE, firstOk |-> "none", rejected |-> 0]
  /\ pc = [p \in Procs |-> "idle"]
  /\ tool = [p \in Procs |-> ""]
  /\ args = [p \in Procs |-> NoArgs]
  /\ loc = [p \in Procs |-> NoLocals]
  /\ log = [p \in Procs |-> <<>>]
  /\ outcome = [p \in Procs |-> NoOutcome]
  /\ store = <<>>

\* ProjectService.listProjects obtains its client first and calls
\* getCurrentUser next; with a cached token the first does not await a login.
Norm(eff, sess) ==
  IF eff.k = "call" /\ eff.c = "acquire" /\ ~NeedsLogin(sess)
    THEN Call("me", "getCurrentUser", Undefined, Undefined, [eff.l EXCEPT !.client = sess.token])
    ELSE eff

\* Every service method obtains a client first, but for the GET /projects of
\* listProjects, which uses the client it obtained at its start.
HoldsClient(eff) == eff.c = "target" /\ eff.svc = "listProjects"

\* The handler of invocation p goes on to effect eff0: it issues the login or
\* the request it awaits next, or it ends.
Apply(p, t, eff0, lg, sess, h) ==
  LET eff == Norm(eff0, sess)
      explicit == eff.c = "auth"
      login == eff.k = "call" /\ (explicit \/ (~HoldsClient(eff) /\ NeedsLogin(sess)))
      user == LoginUser(eff, env)
      pass == LoginPass(eff, env)
      tok == IF HoldsClient(eff) THEN eff.l.client ELSE sess.token
      call == [svc |-> eff.svc, arg |-> eff.arg, st |-> eff.st]
  IN /\ session' = sess
     /\ login => h.logins < MaxLogins
     /\ hist' = IF login
                  THEN [h EXCEPT !.logins = @ + 1, !.explicit = @ \/ explicit]
                  ELSE h
     /\ log' = [log EXCEPT ![p] =
                  CASE login -> Append(lg, Req(eff.c, "login", user, pass, h.logins + 1))
                    [] eff.k = "call" -> Append(lg, Req(eff.c, eff.svc, eff.arg, eff.st, tok))
                    [] OTHER -> lg]
     /\ loc' = [loc EXCEPT ![p] = [eff.l EXCEPT !.call = call]]
     /\ pc' = [pc EXCEPT ![p] = IF eff.k = "call" THEN eff.c ELSE "done"]
     /\ outcome' = [outcome EXCEPT ![p] =
                      CASE eff.k = "call" -> NoOutcome
                        [] eff.k = "throw" -> Catch(t, eff.msg)
                        [] OTHER -> [style |-> "text", kind |-> eff.k, text |-> eff.msg]]

\* The MCP client invokes tool t with arguments a.
Invoke(p, t, a) ==
  /\ pc[p] = "idle"
  /\ tool' = [tool EXCEPT ![p] = t]
  /\ args' = [args EXCEPT ![p] = a]
  /\ Apply(p, t, Entry(t, a, env), <<>>, session, hist)
  /\ UNCHANGED <<env, store>>

\* What follows the answer to a login: the request the login was for, or the
\* failure of the service call (of authenticate) that awaited it.
AfterLogin(t, a, l, c, ok) ==
  IF ok
    THEN CASE c = "auth" -> Call("me", "getCurrentUser", Undefined, Undefined, l)
           [] c = "acquire" -> Call("acquire", "listProjects", Undefined, Undefined, l)
           [] OTHER -> Call(c, l.call.svc, l.call.arg, l.call.st, l)
    ELSE IF c = "auth"
           THEN Throw(AuthError, l)
           ELSE Continue(t, a, l, c, l.call.svc, l.call.arg, FALSE)

\* The remote answers the login invocation p awaits.
LoginResponse(p) ==
  /\ pc[p] \notin {"idle", "done"}
  /\ Last(log[p]).op = "login"
  /\ \E ok \in BOOLEAN :
       LET r == Last(log[p])
           sess == SessionAfterLogin(session, r, ok)
           h == IF r.tok = 1
                  THEN [hist EXCEPT !.firstOk = IF ok THEN "ok" ELSE "fail"]
                  ELSE hist
       IN /\ ok => ValidCredentials(r.arg, r.st)
          /\ Apply(p, tool[p], AfterLogin(tool[p], args[p], loc[p], r.c, ok),
                   SetLast(log[p], IF ok THEN "ok" ELSE "fail"), sess, h)
  /\ UNCHANGED <<env, tool, args, store>>

\* The remote no longer accepts the token request r carries.
Rejects(r) == r.tok <= hist.rejected

\* The request invocation p awaits is answered: it resolves (ok) or throws.
Answer(p, ok) ==
  LET r == Last(log[p])
  IN /\ pc[p] \notin {"idle", "done"}
     /\ r.op # "login"
     /\ Apply(p, tool[p], Continue(tool[p], args[p], loc[p], r.c, r.op, r.arg, ok),
              SetRejected(SetLast(log[p], IF ok THEN "ok" ELSE "fail"),
                          ~ok /\ Rejects(r)),
              SessionAfterAnswer(session, ok), hist)
     /\ UNCHANGED <<env, tool, args>>

\* The remote answers the request invocation p awaits.
Response(p) ==
  /\ pc[p] \notin {"idle", "done"}
  /\ \E ok \in BOOLEAN :
       /\ ok => (CanSucceed(Last(log[p]).op, Last(log[p]).arg) /\ ~Rejects(Last(log[p])))
       /\ Answer(p, ok)
  /\ UNCHANGED store

\* The server sends the result (or the error) of invocation p to the client:
\* the handler's frame is gone.
Deliver(p) ==
  /\ pc[p] = "done"
  /\ pc' = [pc EXCEPT ![p] = "idle"]
  /\ tool' = [tool EXCEPT ![p] = ""]
  /\ args' = [args EXCEPT ![p] = NoArgs]
  /\ loc' = [loc EXCEPT ![p] = NoLocals]
  /\ log' = [log EXCEPT ![p] = <<>>]
  /\ outcome' = [outcome EXCEPT ![p] = NoOutcome]
  /\ UNCHANGED <<env, session, hist, store>>

\* The cached token expires at the remote, which rejects it from now on.
Expire ==
  /\ session.token > hist.rejected
  /\ hist' = [hist EXCEPT !.rejected = session.token]
  /\ UNCHANGED <<env, session, pc, tool, args, loc, log, outcome, store>>

\* One invocation at a time: the client awaits each answer before it invokes
\* the next tool.
Sequential == {"A"}

Next ==
  \/ \E p \in Sequential :
       \/ \E t \in Registered : \E a \in ArgsOf(t) : Invoke(p, t, a)
       \/ LoginResponse(p)
       \/ Response(p)
       \/ Deliver(p)
  \/ Expire

Spec == Init /\ [][Next]_vars

(***************************************************************************)
(* Vocabulary of the properties.                                           *)
(***************************************************************************)
\* The calls a handler makes to find an ID before its own request.
Lookups == {"bySlug", "usList", "fetch", "statuses"}

\* The invocations that have begun.
Invoked == {p \in Procs : pc[p] # "idle"}

\* The tools whose handler takes a project slug, those that take a project
\* identifier (ID or slug), and those that resolve it before their own request.
TakesSlug(t) == Handler[t].resolver \in ProjectResolvers
TakesProject(t) == TakesSlug(t) /\ Handler[t].resolver # "slugOnly"
ResolvesProject(t) == TakesProject(t) /\ Handler[t].resolver # "byIdThenSlug"

PureNumeric(x) == x.t = "string" /\ x.s # <<>> /\ \A i \in 1..Len(x.s) : x.s[i] \in Digits
NonNumeric(x) == x.t = "string" /\ \E i \in 1..Len(x.s) : x.s[i] \notin Digits

\* The positions in the log of invocation p of requests / logins of a kind.
SlugLookups(p) == {i \in DOMAIN log[p] : log[p][i].op = "getProjectBySlug"}
Targets(p) == {i \in DOMAIN log[p] : log[p][i].op # "login" /\ log[p][i].c = "target"}
Failed(p) == {i \in DOMAIN log[p] : log[p][i].res = "fail"}
OwnRequests(p) ==
  {i \in DOMAIN log[p] : log[p][i].op # "login" /\ log[p][i].c \notin Lookups}

\* Invocation p has run through: it ended, not cancelled, and nothing failed.
RanThrough(p) == pc[p] = "done" /\ outcome[p].kind # "cancelled" /\ Failed(p) = {}

StartsWith(s, prefix) == Len(s) >= Len(prefix) /\ SubSeq(s, 1, Len(prefix)) = prefix
Contains(s, sub) == \E i \in 1..(Len(s) - Len(sub) + 1) : SubSeq(s, i, i + Len(sub) - 1) = sub

(***************************************************************************)
(* C1.  For every tool that takes a project identifier: given a pure-      *)
(* numeric string, the invocation issues no by-slug lookup at all, every   *)
(* target request it issues carries the identifier unmodified as its       *)
(* project ID, and when nothing fails it does issue that target request.   *)
(***************************************************************************)
C1_NumericIdUsedUnmodified ==
  \A p \in Invoked :
    (TakesProject(tool[p]) /\ PureNumeric(args[p].ident)) =>
      /\ SlugLookups(p) = {}
      /\ \A i \in Targets(p) : log[p][i].arg = args[p].ident
      /\ RanThrough(p) => Targets(p) # {}

(***************************************************************************)
(* C2.  For every tool that resolves a project identifier: given a non-    *)
(* numeric slug of a remote project, the by-slug lookup is issued exactly  *)
(* once before the target request, the target request carries the numeric  *)
(* ID the lookup returned, and when nothing fails both are issued.         *)
(***************************************************************************)
C2_SlugLookedUpOnce ==
  \A p \in Invoked :
    (/\ ResolvesProject(tool[p])
     /\ NonNumeric(args[p].ident)
     /\ SlugMatches(args[p].ident.s)) =>
      /\ Cardinality(SlugLookups(p)) <= 1
      /\ \A i \in Targets(p) :
           /\ \E j \in SlugLookups(p) : j < i /\ log[p][j].res = "ok"
           /\ log[p][i].arg = Num(ProjectIdOfSlug(args[p].ident.s))
      /\ RanThrough(p) => (Cardinality(SlugLookups(p)) = 1 /\ Targets(p) # {})

(***************************************************************************)
(* C3.  When a non-numeric project slug matches no remote project, the     *)
(* invocation ends in a failure whose text reports "not found", and no     *)
(* request other than the by-slug lookup (and the login) is issued.        *)
(***************************************************************************)
C3_UnknownSlugNotFound ==
  \A p \in Invoked :
    (/\ TakesSlug(tool[p])
     /\ NonNumeric(args[p].ident)
     /\ ~SlugMatches(args[p].ident.s)
     /\ outcome[p].kind # "cancelled") =>
      /\ \A i \in DOMAIN log[p] : log[p][i].op \in {"login", "getProjectBySlug"}
      /\ pc[p] = "done" =>
           (outcome[p].kind = "failure" /\ Contains(outcome[p].text, "not found"))

(***************************************************************************)
(* C4.  Starting with no cached token, as long as no explicit              *)
(* authentication happened and the first login succeeded, exactly one      *)
(* login request has been issued in all, its token is the cached one, and  *)
(* every request issued since carries it.                                  *)
(***************************************************************************)
C4_OneLoginThenReuse ==
  (hist.firstOk = "ok" /\ ~hist.explicit) =>
    /\ hist.logins = 1
    /\ session.token = 1
    /\ \A p \in Invoked : \A i \in DOMAIN log[p] :
         /\ log[p][i].op = "login" => log[p][i].tok = 1
         /\ log[p][i].op # "login" => log[p][i].tok = session.token

\* An invocation that began with the token of the first login cached has
\* issued a request without any login of its own.
C4_Witness ==
  /\ hist.firstOk = "ok" /\ ~hist.explicit /\ hist.logins = 1
  /\ \E p \in Invoked :
       /\ log[p] # <<>>
       /\ \A i \in DOMAIN log[p] : log[p][i].op # "login" /\ log[p][i].tok = 1

(***************************************************************************)
(* C5.  When a login request fails during client acquisition, the          *)
(* invocation issues nothing after it, neither another login nor the       *)
(* operation's request, and ends in a failure.                             *)
(***************************************************************************)
C5_FailedLoginEndsInvocation ==
  \A p \in Invoked : \A i \in DOMAIN log[p] :
    (log[p][i].op = "login" /\ log[p][i].c # "auth" /\ log[p][i].res = "fail") =>
      /\ i = Len(log[p])
      /\ pc[p] = "done"
      /\ outcome[p].kind = "failure"

\* The outcome of invocation p is a failure in one of the two styles: an
\* error thrown with the tool's "Failed to <action>: " prefix, or a text that
\* begins with the tool's failure prefix.
Wrapped(p) ==
  LET prefix == Handler[tool[p]].prefix
  IN /\ outcome[p].style \in {"throw", "text"}
     /\ StartsWith(outcome[p].text, prefix)
     /\ outcome[p].style = "throw" => StartsWith(prefix, "Failed to ")
     /\ Contains(prefix, "Failed to ") \/ Contains(prefix, "failed")

C7_FailedLookupAborts ==
  \A p \in Invoked : \A i \in Failed(p) :
    log[p][i].c \in Lookups =>
      /\ i = Len(log[p])
      /\ pc[p] = "done"
      /\ outcome[p].kind = "failure"

\* The entity fetch of an update succeeded and its status list failed.
C7_Witness ==
  \E p \in Invoked :
    /\ Len(log[p]) >= 2
    /\ Last(log[p]).c = "statuses" /\ Last(log[p]).res = "fail"
    /\ \E i \in DOMAIN log[p] : log[p][i].c = "fetch" /\ log[p][i].res = "ok"
    /\ Targets(p) = {}

\* The CRUD tools: every registered tool but taiga_authenticate.
Crud == Registered \ {"taiga_authenticate"}

(***************************************************************************)
(* C8 as stated.  Apart from logins and lookups, every invocation of a     *)
(* CRUD tool that has ended has issued exactly one request.                *)
(***************************************************************************)
C8_ExactlyOneRequest ==
  \A p \in Invoked :
    (tool[p] \in Crud /\ pc[p] = "done") => Cardinality(OwnRequests(p)) = 1

(***************************************************************************)
(* C8 amended.  Apart from logins and lookups, an invocation of a CRUD     *)
(* tool issues at most one request, and exactly one when it ends in its    *)
(* success text; but taiga_listProjects issues two (GET /users/me, then    *)
(* GET /projects) and taiga_getProject a second one (by slug) when its     *)
(* request by ID failed.                                                   *)
(***************************************************************************)
C8_OneRequestButListAndGetProject ==
  \A p \in Invoked :
    tool[p] \in Crud =>
      LET n == Cardinality(OwnRequests(p))
          ok == pc[p] = "done" /\ outcome[p].kind = "success"
      IN CASE tool[p] = "taiga_listProjects" -> n <= 2 /\ (ok => n = 2)
           [] tool[p] = "taiga_getProject" ->
                /\ n <= 2 /\ (ok => n >= 1)
                /\ n = 2 => (log[p][1].c = "byId" /\ log[p][1].res = "fail")
                            \/ (log[p][2].c = "byId" /\ log[p][2].res = "fail")
           [] OTHER -> n <= 1 /\ (ok => n = 1)

\* taiga_listProjects ended in its success text after two requests.
C8_Witness ==
  \E p \in Invoked :
    /\ tool[p] = "taiga_listProjects" /\ pc[p] = "done" /\ outcome[p].kind = "success"
    /\ Cardinality(OwnRequests(p)) = 2

\* The status list invocation p got holds no status of the name it was given.
StatusUnmatched(p) ==
  \E i \in DOMAIN log[p] :
    /\ log[p][i].c = "statuses" /\ log[p][i].res = "ok"
    /\ FindStatus(StatusesOf(RemoteId(log[p][i].arg)), args[p].status) = {}

(***************************************************************************)
(* C9.  For the tools that accept a status name (taiga_createUserStory,    *)
(* taiga_updateUserStory, taiga_createTask, taiga_updateTask): when the    *)
(* name matches no status of the project, the create / update request is   *)
(* not issued and the invocation ends in a failure reporting "not found".  *)
(***************************************************************************)
C9_UnknownStatusNotFound ==
  \A p \in Invoked :
    (/\ tool[p] \in {"taiga_createUserStory", "taiga_updateUserStory",
                     "taiga_createTask", "taiga_updateTask"}
     /\ StatusUnmatched(p)) =>
      /\ Targets(p) = {}
      /\ pc[p] = "done"
      /\ outcome[p].kind = "failure" /\ Contains(outcome[p].text, "not found")

(***************************************************************************)
(* C10.  For the update tools that accept a status name                    *)
(* (taiga_updateUserStory, taiga_updateTask, taiga_updateIssue,            *)
(* taiga_updateEpic): the status of the PATCH payload is the numeric ID of *)
(* the status of that name in the entity's project, never the name.        *)
(***************************************************************************)
C10_PatchStatusIsId ==
  \A p \in Invoked :
    tool[p] \in {"taiga_updateUserStory", "taiga_updateTask",
                 "taiga_updateIssue", "taiga_updateEpic"} =>
      \A i \in Targets(p) :
        log[p][i].st # Undefined =>
          /\ log[p][i].st.t = "number"
          /\ \E s \in StatusesOf(EntityProject[RemoteId(log[p][i].arg)]) :
               /\ s.id = log[p][i].st.n
               /\ ToLowerCase(s.name) = ToLowerCase(args[p].status.s)

\* The identifier names an existing project: by its ID, or by its slug.
ExistingProject(x) ==
  \/ PureNumeric(x) /\ ToNumber(x.s) \in ProjectIds
  \/ NonNumeric(x) /\ SlugMatches(x.s)
ProjectNamed(x) == IF PureNumeric(x) THEN ToNumber(x.s) ELSE ProjectIdOfSlug(x.s)

(***************************************************************************)
(* C11.  For every registered tool that takes a project identifier: given  *)
(* the numeric ID or the slug of an existing project, an invocation in     *)
(* which no request failed ends in the success text, and a tool that       *)
(* resolves the identifier has issued its target request with the numeric  *)
(* ID of that project.                                                     *)
(***************************************************************************)
C11_ExistingProjectSucceeds ==
  \A p \in Invoked :
    (/\ tool[p] \in Registered
     /\ TakesProject(tool[p])
     /\ ExistingProject(args[p].ident)
     /\ RanThrough(p)) =>
      /\ outcome[p].kind = "success"
      /\ ResolvesProject(tool[p]) =>
           \E i \in Targets(p) : RemoteId(log[p][i].arg) = ProjectNamed(args[p].ident)

(***************************************************************************)
(* The remote as a store: it keeps what a POST creates, and answers GET,   *)
(* PATCH and DELETE of an entity from what it keeps.  Every request is     *)
(* answered by the store (no network failure).                             *)
(***************************************************************************)
Subjects == {Str(<<"S">>), Str(<<"T">>)}
\* The subject of the entities 1 and 2, which the remote held from the start.
ExistingSubject == Str(<<"E">>)

\* The entity kinds that have a subject, by the collection of their URL.
SubjectCollections == {"/userstories", "/tasks", "/issues", "/epics"}
Creates == {m \in DOMAIN Service : Service[m].verb = "POST" /\ Service[m].path \in SubjectCollections}
OfOne == {m \in DOMAIN Service :
            \E c \in SubjectCollections : Service[m].path = c \o "/{id}"}
Collection(m) ==
  IF m \in OfOne THEN SubSeq(Service[m].path, 1, Len(Service[m].path) - 5) ELSE Service[m].path

\* The ID the remote gives its next entity (IDs are global), and the
\* reference number (refs count per project: 5 is taken in project 1, 6 in 2).
NewId(st) == 3 + Len(st)
NewRef(st, proj) ==
  (IF proj = 1 THEN 6 ELSE 7) + Cardinality({k \in DOMAIN st : st[k].project = proj})

\* The subject of the POST payload: userStoryData = { project, subject, ... }.
PayloadSubject(t, a) == a.subject

\* The number the success text of a create tool shows of the created entity:
\* "Reference: #${createdStory.ref}", "Issue #${issue.ref}: ...".
ReportedNumber(t, entity) == entity.ref

\* The subjects the remote holds under an ID of a collection.
Held(st, coll, id) ==
  (IF id \in EntityIds THEN {ExistingSubject} ELSE {})
    \cup {st[k].subject : k \in {j \in DOMAIN st :
                                   st[j].coll = coll /\ st[j].id = id /\ st[j].alive}}

\* Whether the store answers 2xx.
Accepts(st, m, arg) ==
  CASE m \in Creates -> RemoteId(arg) \in ProjectIds
    [] m \in OfOne -> Held(st, Collection(m), RemoteId(arg)) # {}
    [] OTHER -> CanSucceed(m, arg)

\* The store after it answered request r of tool t invoked with a.
StoreAfter(st, r, t, a) ==
  LET mine == {k \in DOMAIN st : st[k].coll = Collection(r.op) /\ st[k].id = RemoteId(r.arg)}
      created == [coll |-> Collection(r.op), id |-> NewId(st),
                  ref |-> NewRef(st, RemoteId(r.arg)), project |-> RemoteId(r.arg),
                  subject |-> PayloadSubject(t, a), alive |-> TRUE]
  IN CASE r.op \in Creates ->
            Append(st, created @@ [given |-> a.subject, touched |-> FALSE,
                                   reported |-> ReportedNumber(t, created)])
       [] r.op \in OfOne /\ Service[r.op].verb = "PATCH" ->
            [k \in DOMAIN st |->
               IF k \in mine
                 THEN [st[k] EXCEPT !.touched = TRUE,
                                    !.subject = IF Truthy(a.subject) THEN a.subject ELSE @]
                 ELSE st[k]]
       [] r.op \in OfOne /\ Service[r.op].verb = "DELETE" ->
            [k \in DOMAIN st |->
               IF k \in mine THEN [st[k] EXCEPT !.touched = TRUE, !.alive = FALSE] ELSE st[k]]
       [] OTHER -> st

\* The store answers the request invocation p awaits.
StoreResponse(p) ==
  /\ pc[p] \notin {"idle", "done"}
  /\ LET r == Last(log[p])
         ok == Accepts(store, r.op, r.arg)
     IN /\ Answer(p, ok)
        /\ store' = IF ok THEN StoreAfter(store, r, tool[p], args[p]) ELSE store

\* The create, get, update and delete tools of the entities with a subject.
StoreTools ==
  {"taiga_createUserStory", "taiga_getUserStory", "taiga_deleteUserStory",
   "taiga_createIssue", "taiga_getIssue", "taiga_updateIssue",
   "taiga_createEpic", "taiga_getEpic", "taiga_createTask", "taiga_getTask"}

\* Their arguments: projects that exist, the subjects, the IDs 1 (held from
\* the start), 3 (the first the remote gives) and 6 (the first ref of project 1).
StoreArgs(t) ==
  CASE Handler[t].svc \in Creates ->
         {[NoArgs EXCEPT !.ident = i, !.subject = s, !.usIdent = Str(<<"1">>)] :
            i \in {Str(<<"1">>), Str(<<"a">>)}, s \in Subjects}
    [] Service[Handler[t].svc].verb = "PATCH" ->
         {[NoArgs EXCEPT !.id = Num(3), !.subject = s] : s \in Subjects \cup {Undefined}}
    [] Service[Handler[t].svc].verb = "DELETE" -> {[NoArgs EXCEPT !.id = Num(3)]}
    [] OTHER -> {[NoArgs EXCEPT !.id = i] : i \in {Num(1), Num(3), Num(6)}}

NextStore ==
  \E p \in Sequential :
    \/ \E t \in StoreTools : \E a \in StoreArgs(t) :
         /\ Handler[t].svc \in Creates => Len(store) < MaxCreated
         /\ Invoke(p, t, a)
    \/ LoginResponse(p)
    \/ StoreResponse(p)
    \/ Deliver(p)

SpecStore == Init /\ [][NextStore]_vars

\* The get tool of a collection.
GetTool(t, coll) ==
  /\ Service[Handler[t].svc].verb = "GET"
  /\ Handler[t].svc \in OfOne /\ Collection(Handler[t].svc) = coll

(***************************************************************************)
(* C12.  Round trip: after a create tool succeeded for an entity of        *)
(* subject S, and as long as the entity was neither updated nor deleted,   *)
(* the number the create returned is an ID under which the remote holds    *)
(* an entity of that kind with subject S, and a get invoked with it ends   *)
(* in success.                                                             *)
(***************************************************************************)
C12_CreateGetRoundTrip ==
  \A k \in DOMAIN store :
    ~store[k].touched =>
      /\ Held(store, store[k].coll, store[k].reported) = {store[k].given}
      /\ \A p \in Invoked :
           (/\ GetTool(tool[p], store[k].coll)
            /\ args[p].id = Num(store[k].reported)
            /\ pc[p] = "done") => outcome[p].kind = "success"

(***************************************************************************)
(* The milestone tools that report a completion percentage, against a      *)
(* remote that holds milestone 1 with some total and closed points.        *)
(***************************************************************************)
Points == 0..MaxPoints

\* Math.round(num / den) for num >= 0 and den > 0, in exact arithmetic.
MathRound(num, den) == (2 * num + den) \div (2 * den)

\* x || d of a number.
OrElse(x, d) == IF x # 0 THEN x ELSE d

\* taiga_closeMilestone: milestone.total_points
\*   ? Math.round((milestone.closed_points / milestone.total_points) * 100) : 0
ClosePercent(m) ==
  IF m.total_points # 0 THEN MathRound(m.closed_points * 100, m.total_points) ELSE 0

\* taiga_getMilestoneStats:
\*   Math.round(((stats.completed_points || 0) / (stats.total_points || 1)) * 100)
StatsPercent(stats) ==
  MathRound(OrElse(stats.completed_points, 0) * 100, OrElse(stats.total_points, 1))

CloseText(percent) ==
  "Milestone closed successfully! Status: CLOSED Completion: " \o ToString(percent) \o "%"
StatsText(done, total, percent) ==
  "Milestone Statistics: Progress: " \o ToString(done) \o "/" \o ToString(total)
    \o " points (" \o ToString(percent) \o "%)"

\* The text the handler renders from the answer (the milestone, its stats).
MilestoneText(t, m) ==
  IF t = "taiga_closeMilestone"
    THEN CloseText(ClosePercent(m))
    ELSE StatsText(OrElse(m.closed_points, 0), OrElse(m.total_points, 0),
                   StatsPercent([completed_points |-> m.closed_points,
                                 total_points |-> m.total_points]))

PointsTools == {"taiga_closeMilestone", "taiga_getMilestoneStats"}

InitPoints ==
  /\ env \in Envs
  /\ session = [token |-> 0, user |-> Undefined]
  /\ hist = [logins |-> 0, explicit |-> FALSE, firstOk |-> "none", rejected |-> 0]
  /\ pc = [p \in Procs |-> "idle"]
  /\ tool = [p \in Procs |-> ""]
  /\ args = [p \in Procs |-> NoArgs]
  /\ loc = [p \in Procs |-> NoLocals]
  /\ log = [p \in Procs |-> <<>>]
  /\ outcome = [p \in Procs |-> NoOutcome]
  /\ \E total \in Points : \E closed \in Points :
       store = <<[coll |-> "/milestones", id |-> 1,
                  total_points |-> total, closed_points |-> closed]>>

\* The remote answers the request of a milestone tool: with the milestone,
\* of which the handler renders its text, or with an error.
PointsResponse(p) ==
  /\ pc[p] = "target"
  /\ Last(log[p]).op # "login"
  /\ \E ok \in BOOLEAN :
       LET r == Last(log[p])
       IN /\ ok => RemoteId(r.arg) = store[1].id
          /\ IF ok
               THEN /\ log' = [log EXCEPT ![p] = SetLast(log[p], "ok")]
                    /\ pc' = [pc EXCEPT ![p] = "done"]
                    /\ outcome' = [outcome EXCEPT ![p] =
                         [style |-> "text", kind |-> "success",
                          text |-> MilestoneText(tool[p], store[1])]]
                    /\ UNCHANGED <<env, session, hist, tool, args, loc>>
               ELSE Answer(p, FALSE)
  /\ UNCHANGED store

NextPoints ==
  \E p \in Sequential :
    \/ \E t \in PointsTools : \E i \in {Num(1), Num(9)} :
         Invoke(p, t, [NoArgs EXCEPT !.id = i])
    \/ LoginResponse(p)
    \/ PointsResponse(p)
    \/ Deliver(p)

SpecPoints == InitPoints /\ [][NextPoints]_vars

\* round(closed / total * 100), 0 when total is 0: the integer nearest to
\* the exact quotient, the upper one of two equally near.
Completion(closed, total) ==
  IF total = 0
    THEN 0
    ELSE CHOOSE n \in 0..(100 * MaxPoints) :
           2 * total * n - total <= 200 * closed /\ 200 * closed < 2 * total * n + total

(***************************************************************************)
(* C13.  For all non-negative point values of a milestone, the text of     *)
(* taiga_closeMilestone and of taiga_getMilestoneStats reports the         *)
(* completion percentage round(closed_points / total_points * 100), and 0  *)
(* when total_points is 0.                                                 *)
(***************************************************************************)
C13_CompletionPercentage ==
  \A p \in Invoked :
    (tool[p] \in PointsTools /\ pc[p] = "done" /\ outcome[p].kind = "success") =>
      LET m == store[1]
          percent == Completion(m.closed_points, m.total_points)
      IN outcome[p].text =
           IF tool[p] = "taiga_closeMilestone"
             THEN CloseText(percent)
             ELSE StatsText(m.closed_points, m.total_points, percent)

\* The list requests invocation p issued to resolve a '#' reference.
RefLookups(p) == {i \in DOMAIN log[p] : log[p][i].op # "login" /\ log[p][i].c = "usList"}

(***************************************************************************)
(* C14.  taiga_createTask: with an identifier that is not '#'-prefixed it  *)
(* lists no user stories and, when nothing fails, issues the POST and ends *)
(* in success; with '#N' it lists the user stories of the resolved project *)
(* once and, when one has ref N, issues the POST and ends in success when  *)
(* nothing fails; when none has ref N it ends in the failure "User story   *)
(* with reference #N not found" without a POST.                            *)
(***************************************************************************)
C14_CreateTaskUserStory ==
  \A p \in Invoked :
    tool[p] = "taiga_createTask" =>
      LET u == args[p].usIdent
          created == outcome[p].kind = "success" /\ Targets(p) # {}
      IN /\ ~StartsWithHash(u) => (RefLookups(p) = {} /\ (RanThrough(p) => created))
         /\ StartsWithHash(u) =>
              /\ Cardinality(RefLookups(p)) <= 1
              /\ \A i \in RefLookups(p) :
                   log[p][i].res = "ok" =>
                     IF \E us \in UserStoriesOf(RemoteId(log[p][i].arg)) : us.ref = Tail(u.s)
                       THEN RanThrough(p) => created
                       ELSE /\ Targets(p) = {}
                            /\ pc[p] = "done" /\ outcome[p].kind = "failure"
                            /\ Contains(outcome[p].text, "User story with reference #")
                            /\ Contains(outcome[p].text, "not found")

\* Two log entries are the same HTTP request: the same service call with the
\* same argument (for a login: the same credentials).
SameRequest(r, q) == r.op = q.op /\ r.arg = q.arg /\ r.st = q.st

(***************************************************************************)
(* C15.  No request is retried: within one invocation, a request that      *)
(* failed is never followed by the same request (a login with the same     *)
(* credentials, or the same service call with the same argument).          *)
(***************************************************************************)
C15_NoRequestRetried ==
  \A p \in Invoked :
    \A i, j \in DOMAIN log[p] :
      (i < j /\ log[p][i].res = "fail") => ~SameRequest(log[p][i], log[p][j])

\* Invocation p takes the step: it begins, goes on after an answer, or ends.
Steps(p) == <<pc[p], log[p]>> # <<pc'[p], log'[p]>>

(***************************************************************************)
(* C16.  A step of a CRUD tool invocation (any registered tool but         *)
(* taiga_authenticate) taken while a token is cached, whether its request  *)
(* succeeded or failed, leaves the cached token and the cached user        *)
(* identity unchanged.                                                     *)
(***************************************************************************)
C16_CrudLeavesSession ==
  [][\A p \in Procs :
       (/\ session.token # 0
        /\ Steps(p)
        /\ (tool[p] \in Crud \/ tool'[p] \in Crud)) => session' = session]_vars

\* A CRUD invocation that began with a cached token has ended in a failure
\* after a request of its own failed, and another has ended in success.
C16_Witness ==
  /\ session.token # 0
  /\ \E p \in Invoked :
       /\ tool[p] \in Crud /\ pc[p] = "done"
       /\ outcome[p].kind = "failure"
       /\ Failed(p) # {}
       /\ \A i \in DOMAIN log[p] : log[p][i].op # "login"

(***************************************************************************)
(* C17.  Once a token is cached, a token is cached in every later state:   *)
(* no step, of a successful or of a failed operation, clears the cached    *)
(* session.                                                                *)
(***************************************************************************)
C17_TokenStaysCached ==
  [][session.token # 0 => session'.token # 0]_vars

\* A token is cached, and an explicit authenticate whose login was issued
\* after the login of the cached token has failed.
C17_Witness ==
  /\ session.token # 0
  /\ \E p \in Invoked :
       /\ tool[p] = "taiga_authenticate" /\ pc[p] = "done"
       /\ outcome[p].kind = "failure"
       /\ \E i \in DOMAIN log[p] :
            /\ log[p][i].op = "login" /\ log[p][i].res = "fail"
            /\ log[p][i].tok > session.token

\* The cached token is one the remote no longer accepts.
CachedTokenRejected == session.token # 0 /\ session.token <= hist.rejected

(***************************************************************************)
(* C18.  A cached token is not checked for expiry.  When the remote has    *)
(* rejected a request for its token, the invocation issues no login after  *)
(* it, any request it still issues carries the same token, the token is    *)
(* still the cached one, and the invocation ends in a failure.  And every  *)
(* request a tool other than taiga_authenticate issues while the cached    *)
(* token is one the remote rejects is not a login and carries that token.  *)
(***************************************************************************)
C18_NoExpiryCheck ==
  /\ [](\A p \in Invoked :
          \A i \in DOMAIN log[p] :
            log[p][i].rej =>
              /\ \A j \in DOMAIN log[p] :
                   j > i => (log[p][j].op # "login" /\ log[p][j].tok = log[p][i].tok)
              /\ log[p][i].tok = session.token
              /\ pc[p] = "done" => outcome[p].kind = "failure")
  /\ [][\A p \in Procs :
          (/\ CachedTokenRejected
           /\ tool'[p] # "taiga_authenticate"
           /\ Len(log'[p]) > Len(log[p])) =>
             (Last(log'[p]).op # "login" /\ Last(log'[p]).tok = session.token)]_vars

\* The cached token has expired, and a CRUD invocation that sent it has
\* ended in a failure, every request of it rejected, without a login.
C18_Witness ==
  /\ CachedTokenRejected
  /\ \E p \in Invoked :
       /\ tool[p] \in Crud /\ pc[p] = "done"
       /\ outcome[p].kind = "failure"
       /\ log[p] # <<>>
       /\ \A i \in DOMAIN log[p] : log[p][i].rej /\ log[p][i].tok = session.token

(***************************************************************************)
(* C19.  An invocation of taiga_authenticate with a username and a         *)
(* password issues first a login with those credentials, whether or not a  *)
(* token is cached; once a login has succeeded the cached token is the one *)
(* it returned and every request issued after it carries that token; and   *)
(* every login that is not of an explicit authenticate carries the         *)
(* configured credentials.                                                 *)
(***************************************************************************)
C19_ExplicitAuthenticate ==
  \A p \in Invoked :
    /\ (/\ tool[p] = "taiga_authenticate"
        /\ Truthy(args[p].username) /\ Truthy(args[p].password)) =>
         /\ log[p] # <<>>
         /\ log[p][1].op = "login"
         /\ log[p][1].arg = args[p].username
         /\ log[p][1].st = args[p].password
    /\ \A i \in DOMAIN log[p] :
         /\ (log[p][i].op = "login" /\ log[p][i].res = "ok") =>
              /\ session.token = log[p][i].tok
              /\ \A j \in DOMAIN log[p] : j > i => log[p][j].tok = log[p][i].tok
         /\ log[p][i].op # "login" => log[p][i].tok = session.token
         /\ (log[p][i].op = "login" /\ log[p][i].c # "auth") =>
              /\ log[p][i].arg = env.TAIGA_USERNAME
              /\ log[p][i].st = env.TAIGA_PASSWORD

\* With the token of the configured account cached, an explicit authenticate
\* as the other account has logged in and gone on with the new token.
C19_Witness ==
  /\ hist.firstOk = "ok"
  /\ \E p \in Invoked :
       /\ tool[p] = "taiga_authenticate"
       /\ args[p].username = Str(<<"v">>)
       /\ Len(log[p]) = 2
       /\ log[p][1].res = "ok" /\ log[p][1].tok > 1
       /\ log[p][2].tok = log[p][1].tok
       /\ session = [token |-> log[p][1].tok, user |-> Str(<<"v">>)]

(***************************************************************************)
(* Interleaved invocations: the server starts the handler of a second      *)
(* request while the first awaits an answer.                               *)
(***************************************************************************)
ConcTools ==
  {"taiga_listProjects", "taiga_getProject", "taiga_getCurrentUser", "taiga_authenticate"}

NextConc ==
  \E p \in Procs :
    \/ \E t \in ConcTools : \E a \in ArgsOf(t) : Invoke(p, t, a)
    \/ LoginResponse(p)
    \/ Response(p)

SpecConc == Init /\ [][NextConc]_vars

\* The tokens the successful logins have returned, and whether a login is
\* still unanswered.
Granted ==
  {k \in 1..hist.logins :
     \E p \in Procs : \E i \in DOMAIN log[p] :
       log[p][i].op = "login" /\ log[p][i].res = "ok" /\ log[p][i].tok = k}
LoginPending ==
  \E p \in Procs : \E i \in DOMAIN log[p] :
    log[p][i].op = "login" /\ log[p][i].res = "pending"

(***************************************************************************)
(* C20.  With invocations interleaved from a state with no cached token,   *)
(* every request of an operation carries a token that a successful login   *)
(* returned, and once no login is unanswered the cached token is one of    *)
(* the tokens the successful logins returned (none when all failed).       *)
(***************************************************************************)
C20_RefreshesDoNotClash ==
  /\ \A p \in Invoked : \A i \in DOMAIN log[p] :
       log[p][i].op # "login" => log[p][i].tok \in Granted
  /\ ~LoginPending =>
       IF Granted = {} THEN session.token = 0 ELSE session.token \in Granted

\* Two CRUD invocations have each logged in, the logins interleaved since
\* neither found a token cached, and each has sent its request with the
\* token its own login returned.
C20_Witness ==
  /\ ~LoginPending
  /\ \A p \in Procs :
       /\ tool[p] \in Crud
       /\ Len(log[p]) >= 2
       /\ log[p][1].op = "login" /\ log[p][1].res = "ok"
       /\ log[p][2].op # "login" /\ log[p][2].tok = log[p][1].tok
  /\ log["A"][1].tok # log["B"][1].tok

(***************************************************************************)
(* C21.  Within one invocation the requests are issued one after another:  *)
(* only the last request issued can be unanswered, so that at most one is  *)
(* outstanding, and every lookup the invocation issues is issued and       *)
(* answered before its target request is issued.                           *)
(***************************************************************************)
C21_OneRequestAtATime ==
  \A p \in Invoked :
    /\ \A i \in DOMAIN log[p] : log[p][i].res = "pending" => i = Len(log[p])
    /\ \A i \in Targets(p) :
         \A j \in DOMAIN log[p] :
           log[p][j].c \in Lookups => (j < i /\ log[p][j].res # "pending")

\* An invocation has resolved a slug, looked up the statuses and awaits the
\* answer to its target request, the only one outstanding.
C21_Witness ==
  \E p \in Invoked :
    /\ Len(log[p]) >= 3
    /\ \E j \in DOMAIN log[p] : log[p][j].c = "bySlug" /\ log[p][j].res = "ok"
    /\ \E j \in DOMAIN log[p] : log[p][j].c = "statuses" /\ log[p][j].res = "ok"
    /\ Last(log[p]).c = "target" /\ Last(log[p]).res = "pending"

\* The tool families the taiga-api-docs resource advertises, each with the
\* tools the repository defines for it.
Advertised ==
  [project |-> DOMAIN projectTools,
   userStory |-> DOMAIN userStoryTools,
   task |-> DOMAIN taskTools,
   issue |-> DOMAIN issueTools,
   epic |-> DOMAIN epicTools,
   milestone |-> DOMAIN milestoneTools,
   user |-> DOMAIN authenticationTools \ {"taiga_authenticate"},
   wiki |-> DOMAIN wikiTools,
   authentication |-> {"taiga_authenticate"}]

(***************************************************************************)
(* C22.  Once the server has started, every tool of every family its       *)
(* documentation resource advertises is registered; in particular the      *)
(* five wiki page tools are.                                               *)
(***************************************************************************)
C22_AdvertisedRegistered ==
  \A p \in Procs : pc[p] \in {"idle", "done"} =>
    \A f \in DOMAIN Advertised : Advertised[f] \subseteq Registered

(***************************************************************************)
(* C23.  taiga_getProjectMembers, given the ID or the slug of an existing  *)
(* project, when no request fails, ends in its success text after it       *)
(* requested the members of that project, never in a failure text.         *)
(***************************************************************************)
C23_ProjectMembersListed ==
  \A p \in Invoked :
    (/\ tool[p] = "taiga_getProjectMembers"
     /\ ExistingProject(args[p].ident)
     /\ RanThrough(p)) =>
      /\ outcome[p].kind = "success"
      /\ \E i \in Targets(p) : RemoteId(log[p][i].arg) = ProjectNamed(args[p].ident)

(***************************************************************************)
(* C24.  An invocation of taiga_deleteProject with confirm = false issues  *)
(* no request at all, neither a login nor a lookup nor a DELETE, and ends  *)
(* in the cancellation text; and a DELETE /projects/{id} is only ever      *)
(* issued by an invocation of taiga_deleteProject with confirm = true.     *)
(***************************************************************************)
C24_DeleteNeedsConfirm ==
  \A p \in Invoked :
    /\ (tool[p] = "taiga_deleteProject" /\ ~args[p].confirm) =>
         /\ log[p] = <<>>
         /\ pc[p] = "done"
         /\ outcome[p].kind = "cancelled"
         /\ StartsWith(outcome[p].text, "Project deletion cancelled.")
    /\ \A i \in DOMAIN log[p] :
         log[p][i].op = "deleteProject" =>
           (tool[p] = "taiga_deleteProject" /\ args[p].confirm)

\* With no token cached, a deletion without confirm has been cancelled
\* without a login.
C24_Witness ==
  /\ session.token = 0 /\ hist.logins = 0
  /\ \E p \in Invoked :
       /\ tool[p] = "taiga_deleteProject" /\ ~args[p].confirm
       /\ pc[p] = "done" /\ outcome[p].kind = "cancelled"

\* The credentials taiga_authenticate is left with after the fallback to the
\* environment lack the username or the password.
LacksCredentials(a) ==
  \/ ~Truthy(a.username) /\ ~Truthy(env.TAIGA_USERNAME)
  \/ ~Truthy(a.password) /\ ~Truthy(env.TAIGA_PASSWORD)

FalsyOf(type) ==
  CASE type = "string" -> Str(<<>>) [] type = "number" -> Num(0) [] OTHER -> Bool(FALSE)
TruthyOf(type) ==
  CASE type = "string" -> Str(<<"S">>) [] type = "number" -> Num(1) [] OTHER -> Bool(TRUE)

UpdateTools == DOMAIN UpdateFields

\* The arguments: the entity 1, and each optional argument omitted, falsy or
\* truthy.
UpdateArgs(t) ==
  LET names == {f.arg : f \in UpdateFields[t]}
      typeOf(x) == (CHOOSE f \in UpdateFields[t] : f.arg = x).type
  IN {[NoArgs EXCEPT !.ident = Str(<<"1">>), !.id = Num(1),
                     !.given = [x \in names |->
                                  IF x \notin supplied THEN Undefined
                                  ELSE IF x \in truthy THEN TruthyOf(typeOf(x))
                                  ELSE FalsyOf(typeOf(x))]] :
        <<supplied, truthy>> \in
          {st \in (SUBSET names) \X (SUBSET names) : st[2] \subseteq st[1]}}

\* The remote answers the PATCH of an update tool, whose payload it received.
PatchResponse(p) ==
  /\ pc[p] = "target"
  /\ \E ok \in BOOLEAN :
       /\ ok => CanSucceed(Last(log[p]).op, Last(log[p]).arg)
       /\ Answer(p, ok)
  /\ store' = <<[tool |-> tool[p], given |-> args[p].given,
                 payload |-> UpdateData(tool[p], args[p].given)]>>

NextPatch ==
  \E p \in Sequential :
    \/ \E t \in UpdateTools : \E a \in UpdateArgs(t) : Invoke(p, t, a)
    \/ LoginResponse(p)
    \/ PatchResponse(p)

SpecPatch == Init /\ [][NextPatch]_vars

\* Payload r carries the key of field f exactly when its argument was given,
\* and then with the value given.
Faithful(r, f) ==
  /\ f.key \in DOMAIN r.payload <=> r.given[f.arg] # Undefined
  /\ f.key \in DOMAIN r.payload => r.payload[f.key] = r.given[f.arg]

(***************************************************************************)
(* C26.  The payload of every PATCH an update tool sends contains the key  *)
(* of an optional argument if and only if the caller supplied the          *)
(* argument, an empty string, 0 or false included, and with the value      *)
(* supplied.                                                               *)
(***************************************************************************)
C26_PayloadIsWhatWasGiven ==
  \A i \in DOMAIN store : \A f \in UpdateFields[store[i].tool] : Faithful(store[i], f)

(***************************************************************************)
(* taiga_listMilestones.  The remote holds up to MaxMilestones milestones  *)
(* of project 1, open or closed.                                           *)
(***************************************************************************)
RECURSIVE Join(_)
Join(s) == IF s = <<>> THEN "" ELSE Head(s) \o Join(Tail(s))

\* (A handler that ignores the closed filter.)
FilterIgnored(milestones, closed) == milestones

\* closed !== undefined ? milestones.filter((m) => m.closed === closed) : milestones
FilteredMilestones(milestones, closed) ==
  IF closed # Undefined
    THEN SelectSeq(milestones, LAMBDA m : m.closed = closed)
    ELSE milestones

\* What the template prints of one milestone (one without user stories and
\* without points).
MilestoneEntry(m) ==
  "Milestone: " \o m.name \o "\n  - ID: " \o ToString(m.id)
    \o "\n  - Status: " \o (IF Truthy(m.closed) THEN "CLOSED" ELSE "OPEN")
    \o "\n  - Start: Not set\n  - Finish: Not set\n  - Created: "
    \o m.created_date \o "\n  \n  \n  \n"

RECURSIVE JoinLines(_)
JoinLines(entries) ==
  CASE entries = <<>> -> ""
    [] Len(entries) = 1 -> entries[1]
    [] OTHER -> entries[1] \o "\n" \o JoinLines(Tail(entries))

\* The text of taiga_listMilestones.
ListText(ident, milestones, closed) ==
  LET filteredMilestones == FilteredMilestones(milestones, closed)
  IN "Milestones for project " \o Join(ident.s) \o ":\n\n"
       \o JoinLines([i \in DOMAIN filteredMilestones |-> MilestoneEntry(filteredMilestones[i])])
       \o "\n\nTotal: " \o ToString(Len(filteredMilestones)) \o " milestone(s)"
       \o (IF closed # Undefined
             THEN " (" \o (IF Truthy(closed) THEN "closed" ELSE "open") \o ")"
             ELSE "")

Flags == {Bool(FALSE), Bool(TRUE)}

InitMilestones ==
  /\ env \in Envs
  /\ session = [token |-> 0, user |-> Undefined]
  /\ hist = [logins |-> 0, explicit |-> FALSE, firstOk |-> "none", rejected |-> 0]
  /\ pc = [p \in Procs |-> "idle"]
  /\ tool = [p \in Procs |-> ""]
  /\ args = [p \in Procs |-> NoArgs]
  /\ loc = [p \in Procs |-> NoLocals]
  /\ log = [p \in Procs |-> <<>>]
  /\ outcome = [p \in Procs |-> NoOutcome]
  /\ \E n \in 0..MaxMilestones : \E flags \in [1..n -> Flags] :
       store = [i \in 1..n |->
                  [coll |-> "/milestones", id |-> i, project |-> 1,
                   name |-> "m" \o ToString(i), closed |-> flags[i],
                   created_date |-> "2026-01-01"]]

\* The milestones of a project, as GET /milestones?project= answers them.
MilestonesOf(st, proj) == SelectSeq(st, LAMBDA m : m.project = proj)

ListArgs ==
  {[NoArgs EXCEPT !.ident = i, !.given = [x \in {"closed"} |-> c]] :
     i \in {Str(<<"1">>), Str(<<"a">>)}, c \in Flags \cup {Undefined}}

\* The remote answers a request of taiga_listMilestones: the slug lookup, or
\* the list, of which the handler renders its text.
ListResponse(p) ==
  /\ pc[p] \notin {"idle", "done"}
  /\ Last(log[p]).op # "login"
  /\ \E ok \in BOOLEAN :
       LET r == Last(log[p])
       IN /\ ok => CanSucceed(r.op, r.arg)
          /\ IF ok /\ pc[p] = "target"
               THEN /\ log' = [log EXCEPT ![p] = SetLast(log[p], "ok")]
                    /\ pc' = [pc EXCEPT ![p] = "done"]
                    /\ outcome' = [outcome EXCEPT ![p] =
                         [style |-> "text", kind |-> "success",
                          text |-> ListText(args[p].ident,
                                            MilestonesOf(store, RemoteId(r.arg)),
                                            args[p].given["closed"])]]
                    /\ UNCHANGED <<env, session, hist, tool, args, loc>>
               ELSE Answer(p, ok)
  /\ UNCHANGED store

NextMilestones ==
  \E p \in Sequential :
    \/ \E a \in ListArgs : Invoke(p, "taiga_listMilestones", a)
    \/ LoginResponse(p)
    \/ ListResponse(p)
    \/ Deliver(p)

SpecMilestones == InitMilestones /\ [][NextMilestones]_vars

\* The milestones the text of invocation p lists.
Listed(p) == {i \in DOMAIN store : Contains(outcome[p].text, MilestoneEntry(store[i]))}

(***************************************************************************)
(* C27.  The text of a successful taiga_listMilestones lists a milestone   *)
(* of the remote response exactly when no closed filter was given or the   *)
(* milestone's closed flag equals the filter, and the Total it reports is  *)
(* the number of milestones it lists.                                      *)
(***************************************************************************)
C27_ListMilestonesFiltered ==
  \A p \in Invoked :
    (tool[p] = "taiga_listMilestones" /\ pc[p] = "done" /\ outcome[p].kind = "success") =>
      LET closed == args[p].given["closed"]
      IN /\ \A i \in DOMAIN store :
              i \in Listed(p) <=> (closed = Undefined \/ store[i].closed = closed)
         /\ Contains(outcome[p].text,
                     "\n\nTotal: " \o ToString(Cardinality(Listed(p))) \o " milestone(s)")

\* Of an open and a closed milestone, a list filtered by closed = true shows
\* the closed one only.
C27_Witness ==
  /\ Len(store) = 2 /\ store[1].closed = Bool(FALSE) /\ store[2].closed = Bool(TRUE)
  /\ \E p \in Invoked :
       /\ tool[p] = "taiga_listMilestones"
       /\ args[p].given["closed"] = Bool(TRUE)
       /\ pc[p] = "done" /\ outcome[p].kind = "success"
       /\ Listed(p) = {2}
       /\ Contains(outcome[p].text, "Total: 1 milestone(s) (closed)")


\* The positions in the log of invocation p of the by-ID call of
\* taiga_getProject and of the by-slug call that follows its failure; each
\* call is its request and the login the service issued for it, if any.
ByIdCall(p) == {i \in DOMAIN log[p] : log[p][i].c = "byId"}
Fallback(p) == {i \in DOMAIN log[p] : log[p][i].c = "fallback"}

(***************************************************************************)
(* C28.  taiga_getProject with a numeric identifier first calls the        *)
(* project by ID, and looks the same identifier up by slug only after      *)
(* that call has failed (its request, or the login for it); it ends in a   *)
(* failure exactly when both calls have failed.  With a non-numeric        *)
(* identifier it issues the by-slug lookup only, never a request by ID.    *)
(***************************************************************************)
C28_GetProjectFallback ==
  \A p \in Invoked :
    tool[p] = "taiga_getProject" =>
      IF ~IsNaN(args[p].ident)
        THEN /\ log[p] # <<>> => log[p][1].c = "byId"
             /\ \A i \in DOMAIN log[p] :
                  /\ log[p][i].op \in {"login", "getProject", "getProjectBySlug"}
                  /\ log[p][i].op = "getProject" <=>
                       (log[p][i].c = "byId" /\ log[p][i].op # "login")
                  /\ log[p][i].op # "login" => log[p][i].arg = args[p].ident
             /\ \A i \in Fallback(p) :
                  \E j \in ByIdCall(p) : j < i /\ log[p][j].res = "fail"
             /\ pc[p] = "done" =>
                  (outcome[p].kind = "failure" <=>
                     /\ \E j \in ByIdCall(p) : log[p][j].res = "fail"
                     /\ \E i \in Fallback(p) : log[p][i].res = "fail")
        ELSE \A i \in DOMAIN log[p] :
               /\ log[p][i].op \in {"login", "getProjectBySlug"}
               /\ log[p][i].c = "target"

\* The request by ID of "7" has failed, no project having that ID, and the
\* lookup of "7" as a slug has found project 2: the invocation succeeded.
C28_Witness ==
  \E p \in Invoked :
    /\ tool[p] = "taiga_getProject" /\ args[p].ident = Str(<<"7">>)
    /\ pc[p] = "done" /\ outcome[p].kind = "success"
    /\ \E j \in ByIdCall(p) : log[p][j].op = "getProject" /\ log[p][j].res = "fail"
    /\ \E i \in Fallback(p) : log[p][i].op = "getProjectBySlug" /\ log[p][i].res = "ok"
====
